---- MODULE Spec2Model ----
(***************************************************************************)
(* Model of the audio relay (src/server.py) and of the segment collector   *)
(* (src/translate.py).                                                     *)
(*                                                                         *)
(* The relay runs on one asyncio event loop: the code between two awaits   *)
(* of a coroutine is one atomic step.  Every connection has a receive path *)
(* (websocket_endpoint) and a sender task (client_sender); ep_pc and       *)
(* sender_pc hold the await each of them is suspended at.                   *)
(*                                                                         *)
(* Time is kept as ages in whole seconds: idle_for[c] is time.time() minus *)
(* client.last_activity, counted up to one second past the idle limit;     *)
(* the clock is read every TickSeconds and may advance between any two     *)
(* steps.                                                                  *)
(***************************************************************************)
EXTENDS Integers, Sequences, FiniteSets, TLC

\* ---------------------------------------------------------------- bounds
NumClients == 2      \* connections the model opens
MaxChunks  == 4      \* inbound chunks received in a run (server_stats.total_messages)
TickSeconds == 2     \* seconds between two readings of the clock
NumThreads == 2      \* threads calling process_audio_for_translation
MaxAdds    == 4      \* add_chunk calls in a run
MaxReconfig == 1     \* set_audio_duration calls in a run
MaxNow     == 2      \* last value of the collector's clock

\* ------------------------------------------------------- program constants
QueueMaxSize == 3    \* asyncio.Queue(maxsize=3)
IdleLimit    == 5    \* time.time() - client.last_activity > 5
InitialRate  == 24000   \* self.bytes_per_second = 24000
DefaultDuration == 1    \* AUDIO_DURATION_SECONDS = 1.0

Clients == 1..NumClients
Threads == 1..NumThreads
Collectors == 0..MaxReconfig
NoData  == <<0, 0>>  \* no chunk held
HalfIdle == IdleLimit \div 2   \* whole seconds within half the idle limit
AgeCap == IdleLimit + 1       \* ages beyond the idle limit are not told apart

VARIABLES
    connected_clients,  \* the registry: set of ClientConnection
    ep_pc,              \* websocket_endpoint: "idle" | "receive" | "await_sender" | "closed"
    sender_pc,          \* client_sender: "none" | "created" | "get" | "send" |
                        \*   "sleep_sent" | "sleep_idle" | "done"
    cancel_req,         \* sender_task.cancel() requested, CancelledError not yet raised
    data_queue,         \* client.data_queue, oldest first
    sender_data,        \* the local `data` of client_sender
    idle_for,           \* time.time() - client.last_activity, up to AgeCap
    packet_counter,     \* client.packet_counter
    total_messages,     \* server_stats.total_messages
    ws_closed,          \* websocket.close() has been called
    \* history variables (not program state)
    exit_reason,        \* how client_sender left its loop
    unsent_for,         \* time since the last successful send (since accept before any)
    unrecv_for,         \* time since the last inbound chunk (since accept before any)
    regular,            \* no HalfIdle interval without a successful send so far
    last_fanout         \* the last fan-out: source, chunk, targets, cleared, skipped

\* The fan-out loop taken one target at a time (LoopSpec).
VARIABLES
    fanout_iter,        \* the `for other_client in connected_clients` in progress:
                        \*   its source, chunk, the members still to visit and
                        \*   len(connected_clients) when the iterator was made
    iter_failed         \* history: an iteration raised "Set changed size during iteration"

\* src/translate.py.  A collector is an AudioCollector object: collector 0 is
\* the one made at import, collector k the one made by the k-th call of
\* set_audio_duration.  A byte is named by its position in the stream of bytes
\* added to its collector; a buffer is a sequence of runs <<lo, hi>> of
\* consecutive bytes lo..hi-1.  A rate is a fraction <<num, den>> of bytes per
\* second.  The clock counts whole seconds.
VARIABLES
    now,                    \* time.time()
    audio_collector,        \* the global: index of the current collector
    AUDIO_DURATION_SECONDS, \* the global
    duration_seconds,       \* self.duration_seconds, of each collector
    buffer,                 \* self.buffer
    last_save_time,         \* self.last_save_time
    bytes_per_second,       \* self.bytes_per_second
    lock,                   \* self.lock: the thread holding it, 0 when free
    t_pc,                   \* a thread: "idle" | "loaded" | "appended"
    t_ref,                  \* the collector the thread read from the global
    t_len,                  \* len(audio_data) of the thread's chunk
    \* history variables (not program state)
    added,                  \* sizes of the chunks added to each collector, in order
    adapted,                \* the rate estimate of the collector has been adjusted
    emitted,                \* the segments handed to _save_audio_file, in order
    saved                   \* the files written: segment and file name

agg_vars == <<now, audio_collector, AUDIO_DURATION_SECONDS, duration_seconds,
              buffer, last_save_time, bytes_per_second, lock, t_pc, t_ref, t_len,
              added, adapted, emitted, saved>>

loop_vars == <<fanout_iter, iter_failed>>

relay_vars == <<connected_clients, ep_pc, sender_pc, cancel_req, data_queue,
                sender_data, idle_for, packet_counter, total_messages,
                ws_closed, exit_reason, unsent_for, unrecv_for, regular, last_fanout,
                loop_vars>>

vars == <<relay_vars, agg_vars>>

NoIter == [src |-> 0, data |-> NoData, todo |-> {}, size |-> 0]

NoFanout == [src |-> 0, data |-> NoData, targets |-> {}, cleared |-> {}, skipped |-> {}]

Max(a, b) == IF a >= b THEN a ELSE b

\* ------------------------------------------------------------ the queue
\* while not q.empty(): q.get_nowait()
RECURSIVE ClearQueue(_)
ClearQueue(q) == IF q = <<>> THEN q ELSE ClearQueue(Tail(q))

UnderPressureNever(q) == FALSE

\* q.qsize() >= q.maxsize - 1
UnderPressure(q) == Len(q) >= QueueMaxSize - 1

\* q.put_nowait(d); QueueFull is caught and the chunk skipped
PutNowait(q, d) == IF Len(q) >= QueueMaxSize THEN q ELSE Append(q, d)

EnqueueNoBound(q, d) == Append(q, d)

EnqueueClearAtFull(q, d) ==
    PutNowait(IF Len(q) >= QueueMaxSize THEN ClearQueue(q) ELSE q, d)

\* the body of the fan-out loop for one target
Enqueue(q, d) == PutNowait(IF UnderPressure(q) THEN ClearQueue(q) ELSE q, d)

BroadcastTargetsWithSource(c) == connected_clients

BroadcastTargetsEverAccepted(c) == {o \in Clients : ep_pc[o] # "idle" /\ o # c}

\* for other_client in connected_clients: if other_client != client
BroadcastTargets(c) == {o \in connected_clients : o # c}

\* ------------------------------------------------------------ the clock
\* time.time() - client.last_activity > 5
IdleExpired(c) == idle_for[c] > IdleLimit

\* the connection is accepted and its transport not yet closed
Live(c) == ep_pc[c] \in {"receive", "await_sender"}

Older(a) == IF a + TickSeconds < AgeCap THEN a + TickSeconds ELSE AgeCap

Aged(age) == [c \in Clients |-> IF Live(c) THEN Older(age[c]) ELSE age[c]]

\* TickSeconds pass
Tick ==
    /\ idle_for' = Aged(idle_for)
    /\ unsent_for' = Aged(unsent_for)
    /\ unrecv_for' = Aged(unrecv_for)
    /\ regular' = [c \in Clients |-> regular[c] /\ (Live(c) => unsent_for'[c] <= HalfIdle)]
    /\ unrecv_for' # unrecv_for
    /\ UNCHANGED <<connected_clients, ep_pc, sender_pc, cancel_req, data_queue,
                   sender_data, packet_counter, total_messages,
                   ws_closed, exit_reason, last_fanout>>

\* ------------------------------------------------- websocket_endpoint
\* accept, ClientConnection(websocket), connected_clients.add, create_task
EndpointConnect(c) ==
    /\ ep_pc[c] = "idle"
    /\ ep_pc' = [ep_pc EXCEPT ![c] = "receive"]
    /\ connected_clients' = connected_clients \cup {c}
    /\ sender_pc' = [sender_pc EXCEPT ![c] = "created"]
    /\ idle_for' = [idle_for EXCEPT ![c] = 0]
    /\ data_queue' = [data_queue EXCEPT ![c] = <<>>]
    /\ packet_counter' = [packet_counter EXCEPT ![c] = 0]
    /\ unsent_for' = [unsent_for EXCEPT ![c] = 0]
    /\ unrecv_for' = [unrecv_for EXCEPT ![c] = 0]
    /\ UNCHANGED <<cancel_req, sender_data, total_messages, ws_closed,
                   exit_reason, regular, last_fanout>>

EndpointReceiveNoStamp(c) ==
    LET d == <<c, packet_counter[c] + 1>>
        targets == BroadcastTargets(c)
    IN  /\ ep_pc[c] = "receive"
        /\ total_messages < MaxChunks
        /\ packet_counter' = [packet_counter EXCEPT ![c] = @ + 1]
        /\ total_messages' = total_messages + 1
        /\ data_queue' = [t \in Clients |->
                            IF t \in targets THEN Enqueue(data_queue[t], d)
                                             ELSE data_queue[t]]
        /\ unrecv_for' = [unrecv_for EXCEPT ![c] = 0]
        /\ last_fanout' = [src |-> c, data |-> d, targets |-> targets,
                           cleared |-> {t \in targets : UnderPressure(data_queue[t])},
                           skipped |-> {o \in Clients \ connected_clients :
                                           ep_pc[o] # "idle" /\ o # c}]
        /\ UNCHANGED <<connected_clients, ep_pc, sender_pc, cancel_req,
                       sender_data, idle_for, ws_closed, exit_reason,
                       unsent_for, regular>>

\* one pass of the receive loop: receive_bytes returns a chunk, the stamp, the
\* counters and the whole fan-out loop (no await in between)
EndpointReceive(c) ==
    LET d == <<c, packet_counter[c] + 1>>
        targets == BroadcastTargets(c)
    IN  /\ ep_pc[c] = "receive"
        /\ total_messages < MaxChunks
        /\ idle_for' = [idle_for EXCEPT ![c] = 0]
        /\ packet_counter' = [packet_counter EXCEPT ![c] = @ + 1]
        /\ total_messages' = total_messages + 1
        /\ data_queue' = [t \in Clients |->
                            IF t \in targets THEN Enqueue(data_queue[t], d)
                                             ELSE data_queue[t]]
        /\ unrecv_for' = [unrecv_for EXCEPT ![c] = 0]
        /\ last_fanout' = [src |-> c, data |-> d, targets |-> targets,
                           cleared |-> {t \in targets : UnderPressure(data_queue[t])},
                           skipped |-> {o \in Clients \ connected_clients :
                                           ep_pc[o] # "idle" /\ o # c}]
        /\ UNCHANGED <<connected_clients, ep_pc, sender_pc, cancel_req,
                       sender_data, ws_closed, exit_reason, unsent_for, regular>>

\* lines 173-175 once the sender task is finished: unregister, close
CloseAfterJoin(c) ==
    /\ connected_clients' = connected_clients \ {c}
    /\ ws_closed' = [ws_closed EXCEPT ![c] = TRUE]
    /\ ep_pc' = [ep_pc EXCEPT ![c] = "closed"]

EndpointDisconnectNoJoin(c) ==
    /\ ep_pc[c] = "receive"
    /\ cancel_req' = [cancel_req EXCEPT ![c] = sender_pc[c] # "done"]
    /\ CloseAfterJoin(c)
    /\ UNCHANGED <<sender_pc, data_queue, sender_data, idle_for,
                   packet_counter, total_messages, exit_reason, unsent_for,
                   unrecv_for, regular, last_fanout>>

\* receive_bytes raises (disconnect, transport error): except, then finally:
\* sender_task.cancel(); await sender_task.  Awaiting a finished task does not
\* suspend, so the rest of the finally block runs in the same step.
EndpointDisconnect(c) ==
    /\ ep_pc[c] = "receive"
    /\ IF sender_pc[c] = "done"
         THEN /\ CloseAfterJoin(c)
              /\ UNCHANGED cancel_req
         ELSE /\ cancel_req' = [cancel_req EXCEPT ![c] = TRUE]
              /\ ep_pc' = [ep_pc EXCEPT ![c] = "await_sender"]
              /\ UNCHANGED <<connected_clients, ws_closed>>
    /\ UNCHANGED <<sender_pc, data_queue, sender_data, idle_for,
                   packet_counter, total_messages, exit_reason, unsent_for,
                   unrecv_for, regular, last_fanout>>

\* await sender_task returns (CancelledError swallowed): unregister, close
EndpointJoin(c) ==
    /\ ep_pc[c] = "await_sender"
    /\ sender_pc[c] = "done"
    /\ CloseAfterJoin(c)
    /\ UNCHANGED <<sender_pc, cancel_req, data_queue, sender_data,
                   idle_for, packet_counter, total_messages, exit_reason,
                   unsent_for, unrecv_for, regular, last_fanout>>

\* ------------------------------------------------------- client_sender
SenderFinallyClearsAll(c, why) ==
    /\ connected_clients' = {}
    /\ sender_pc' = [sender_pc EXCEPT ![c] = "done"]
    /\ exit_reason' = [exit_reason EXCEPT ![c] = why]

\* the finally block: if client in connected_clients: remove
SenderFinally(c, why) ==
    /\ connected_clients' = connected_clients \ {c}
    /\ sender_pc' = [sender_pc EXCEPT ![c] = "done"]
    /\ exit_reason' = [exit_reason EXCEPT ![c] = why]

\* the task's first step: runs to the first wait_for
SenderStart(c) ==
    /\ sender_pc[c] = "created"
    /\ ~cancel_req[c]
    /\ sender_pc' = [sender_pc EXCEPT ![c] = "get"]
    /\ UNCHANGED <<connected_clients, ep_pc, cancel_req, data_queue,
                   sender_data, idle_for, packet_counter, total_messages,
                   ws_closed, exit_reason, unsent_for, unrecv_for, regular,
                   last_fanout>>

\* wait_for(queue.get()) returns an item; send_bytes is entered
SenderGet(c) ==
    /\ sender_pc[c] = "get"
    /\ ~cancel_req[c]
    /\ data_queue[c] # <<>>
    /\ sender_data' = [sender_data EXCEPT ![c] = Head(data_queue[c])]
    /\ data_queue' = [data_queue EXCEPT ![c] = Tail(@)]
    /\ sender_pc' = [sender_pc EXCEPT ![c] = "send"]
    /\ UNCHANGED <<connected_clients, ep_pc, cancel_req, idle_for,
                   packet_counter, total_messages, ws_closed, exit_reason,
                   unsent_for, unrecv_for, regular, last_fanout>>

SenderSendOkNoStamp(c) ==
    /\ sender_pc[c] = "send"
    /\ ~cancel_req[c]
    /\ unsent_for' = [unsent_for EXCEPT ![c] = 0]
    /\ sender_pc' = [sender_pc EXCEPT ![c] = "sleep_sent"]
    /\ UNCHANGED <<connected_clients, ep_pc, cancel_req, data_queue,
                   sender_data, idle_for, packet_counter, total_messages,
                   ws_closed, exit_reason, unrecv_for, regular, last_fanout>>

\* send_bytes returns: idle_for = time.time(), then sleep(0.001)
SenderSendOk(c) ==
    /\ sender_pc[c] = "send"
    /\ ~cancel_req[c]
    /\ idle_for' = [idle_for EXCEPT ![c] = 0]
    /\ unsent_for' = [unsent_for EXCEPT ![c] = 0]
    /\ sender_pc' = [sender_pc EXCEPT ![c] = "sleep_sent"]
    /\ UNCHANGED <<connected_clients, ep_pc, cancel_req, data_queue,
                   sender_data, packet_counter, total_messages, ws_closed,
                   exit_reason, unrecv_for, regular, last_fanout>>

\* send_bytes raises: except Exception, then finally
SenderSendFail(c) ==
    /\ sender_pc[c] = "send"
    /\ ~cancel_req[c]
    /\ SenderFinally(c, "error")
    /\ UNCHANGED <<ep_pc, cancel_req, data_queue, sender_data,
                   idle_for, packet_counter, total_messages, ws_closed,
                   unsent_for, unrecv_for, regular, last_fanout>>

\* either sleep(0.001) returns: back to wait_for
SenderWake(c) ==
    /\ sender_pc[c] \in {"sleep_sent", "sleep_idle"}
    /\ ~cancel_req[c]
    /\ sender_pc' = [sender_pc EXCEPT ![c] = "get"]
    /\ UNCHANGED <<connected_clients, ep_pc, cancel_req, data_queue,
                   sender_data, idle_for, packet_counter, total_messages,
                   ws_closed, exit_reason, unsent_for, unrecv_for, regular,
                   last_fanout>>

\* wait_for times out on the empty queue and the idle limit is not exceeded
SenderIdleContinue(c) ==
    /\ sender_pc[c] = "get"
    /\ ~cancel_req[c]
    /\ data_queue[c] = <<>>
    /\ ~IdleExpired(c)
    /\ sender_pc' = [sender_pc EXCEPT ![c] = "sleep_idle"]
    /\ UNCHANGED <<connected_clients, ep_pc, cancel_req, data_queue,
                   sender_data, idle_for, packet_counter, total_messages,
                   ws_closed, exit_reason, unsent_for, unrecv_for, regular,
                   last_fanout>>

\* wait_for times out on the empty queue and the idle limit is exceeded:
\* break, then finally
SenderIdleExit(c) ==
    /\ sender_pc[c] = "get"
    /\ ~cancel_req[c]
    /\ data_queue[c] = <<>>
    /\ IdleExpired(c)
    /\ SenderFinally(c, "timeout")
    /\ UNCHANGED <<ep_pc, cancel_req, data_queue, sender_data,
                   idle_for, packet_counter, total_messages, ws_closed,
                   unsent_for, unrecv_for, regular, last_fanout>>

\* CancelledError is raised at the await the task is suspended at; it is not
\* caught by except Exception, the finally block runs.  A task cancelled
\* before its first step never enters the try block.
SenderCancelled(c) ==
    /\ cancel_req[c]
    /\ sender_pc[c] \in {"created", "get", "send", "sleep_sent", "sleep_idle"}
    /\ cancel_req' = [cancel_req EXCEPT ![c] = FALSE]
    /\ IF sender_pc[c] = "created"
         THEN /\ sender_pc' = [sender_pc EXCEPT ![c] = "done"]
              /\ exit_reason' = [exit_reason EXCEPT ![c] = "unstarted"]
              /\ UNCHANGED connected_clients
         ELSE SenderFinally(c, "cancelled")
    /\ UNCHANGED <<ep_pc, data_queue, sender_data, idle_for,
                   packet_counter, total_messages, ws_closed, unsent_for,
                   unrecv_for, regular, last_fanout>>

\* the relay before any connection
RelayInit ==
    /\ connected_clients = {}
    /\ ep_pc = [c \in Clients |-> "idle"]
    /\ sender_pc = [c \in Clients |-> "none"]
    /\ cancel_req = [c \in Clients |-> FALSE]
    /\ data_queue = [c \in Clients |-> <<>>]
    /\ sender_data = [c \in Clients |-> NoData]
    /\ idle_for = [c \in Clients |-> 0]
    /\ packet_counter = [c \in Clients |-> 0]
    /\ total_messages = 0
    /\ ws_closed = [c \in Clients |-> FALSE]
    /\ exit_reason = [c \in Clients |-> "none"]
    /\ unsent_for = [c \in Clients |-> 0]
    /\ unrecv_for = [c \in Clients |-> 0]
    /\ regular = [c \in Clients |-> TRUE]
    /\ last_fanout = NoFanout
    /\ fanout_iter = NoIter
    /\ iter_failed = FALSE

\* ------------------------------------------------------ AudioCollector
Min(a, b) == IF a <= b THEN a ELSE b

RECURSIVE Gcd(_, _)
Gcd(a, b) == IF b = 0 THEN a ELSE Gcd(b, a % b)

\* the fraction n/d in lowest terms
Frac(n, d) == LET g == Gcd(n, d) IN <<n \div g, d \div g>>

RECURSIVE BufLen(_)
\* len(buffer)
BufLen(buf) == IF buf = <<>> THEN 0 ELSE Head(buf)[2] - Head(buf)[1] + BufLen(Tail(buf))

\* buffer followed by one run of bytes
AddRun(buf, run) ==
    IF run[1] = run[2] THEN buf
    ELSE IF buf # <<>> /\ buf[Len(buf)][2] = run[1]
           THEN [buf EXCEPT ![Len(buf)] = <<@[1], run[2]>>]
           ELSE Append(buf, run)

RECURSIVE Concat(_, _)
\* the bytes of a followed by the bytes of b
Concat(a, b) == IF b = <<>> THEN a ELSE Concat(AddRun(a, Head(b)), Tail(b))

\* the index a Python slice bound t stands for in a sequence of n items
PyIndex(t, n) == IF t < 0 THEN Max(n + t, 0) ELSE Min(t, n)

RECURSIVE TakeBytes(_, _)
TakeBytes(buf, k) ==
    IF k = 0 \/ buf = <<>> THEN <<>>
    ELSE LET r == Head(buf)
             l == r[2] - r[1]
         IN  IF l <= k THEN Concat(<<r>>, TakeBytes(Tail(buf), k - l))
                       ELSE <<<<r[1], r[1] + k>>>>

RECURSIVE DropBytes(_, _)
DropBytes(buf, k) ==
    IF k = 0 \/ buf = <<>> THEN buf
    ELSE LET r == Head(buf)
             l == r[2] - r[1]
         IN  IF l <= k THEN DropBytes(Tail(buf), k - l)
                       ELSE <<<<r[1] + k, r[2]>>>> \o Tail(buf)

\* self.buffer[:target_size]
SliceTo(buf, t) == TakeBytes(buf, PyIndex(t, BufLen(buf)))

SliceFromOneMore(buf, t) == DropBytes(buf, PyIndex(t + 1, BufLen(buf)))

\* self.buffer[target_size:]
SliceFrom(buf, t) == DropBytes(buf, PyIndex(t, BufLen(buf)))

\* elapsed > 0.1
SampleDue(elapsed) == 10 * elapsed > 1

\* (self.bytes_per_second * 0.8) + (current_rate * 0.2), with
\* current_rate = len(self.buffer) / elapsed
Smoothed(bps, len, elapsed) ==
    Frac(4 * bps[1] * elapsed + len * bps[2], 5 * bps[2] * elapsed)

\* int(self.duration_seconds * self.bytes_per_second)
TargetSize(duration, bps) == (duration * bps[1]) \div bps[2]

SegmentDueStrict(len, target) == len > target

\* len(self.buffer) >= target_size
SegmentDue(len, target) == len >= target

\* the bytes added to collector g so far
Added(g) == LET RECURSIVE Sum(_)
                Sum(q) == IF q = <<>> THEN 0 ELSE Head(q) + Sum(Tail(q))
            IN  Sum(added[g])

\* the clock advances by a second
AggTick ==
    /\ now < MaxNow
    /\ now' = now + 1
    /\ UNCHANGED <<audio_collector, AUDIO_DURATION_SECONDS, duration_seconds,
                   buffer, last_save_time, bytes_per_second, lock, t_pc, t_ref,
                   t_len, added, adapted, emitted>>

\* process_audio_for_translation(audio_data) reads the global audio_collector
\* and calls its add_chunk
ProcessAudio(t, n) ==
    /\ t_pc[t] = "idle"
    /\ t_pc' = [t_pc EXCEPT ![t] = "loaded"]
    /\ t_ref' = [t_ref EXCEPT ![t] = audio_collector]
    /\ t_len' = [t_len EXCEPT ![t] = n]
    /\ UNCHANGED <<now, audio_collector, AUDIO_DURATION_SECONDS, duration_seconds,
                   buffer, last_save_time, bytes_per_second, lock, added,
                   adapted, emitted>>

AddChunkAppendNoLock(t) ==
    LET g == t_ref[t]
        buf == AddRun(buffer[g], <<Added(g), Added(g) + t_len[t]>>)
        elapsed == now - last_save_time[g]
    IN  /\ t_pc[t] = "loaded"
        /\ lock' = [lock EXCEPT ![g] = t]
        /\ buffer' = [buffer EXCEPT ![g] = buf]
        /\ added' = [added EXCEPT ![g] = Append(@, t_len[t])]
        /\ IF SampleDue(elapsed)
             THEN /\ bytes_per_second' = [bytes_per_second EXCEPT ![g] =
                                            Smoothed(@, BufLen(buf), elapsed)]
                  /\ adapted' = [adapted EXCEPT ![g] = TRUE]
             ELSE UNCHANGED <<bytes_per_second, adapted>>
        /\ t_pc' = [t_pc EXCEPT ![t] = "appended"]
        /\ UNCHANGED <<now, audio_collector, AUDIO_DURATION_SECONDS,
                       duration_seconds, last_save_time, t_ref, t_len, emitted>>

\* add_chunk, lines 29-36: the lock is taken, the chunk appended and the rate
\* estimate adjusted
AddChunkAppend(t) ==
    LET g == t_ref[t]
        buf == AddRun(buffer[g], <<Added(g), Added(g) + t_len[t]>>)
        elapsed == now - last_save_time[g]
    IN  /\ t_pc[t] = "loaded"
        /\ lock[g] = 0
        /\ lock' = [lock EXCEPT ![g] = t]
        /\ buffer' = [buffer EXCEPT ![g] = buf]
        /\ added' = [added EXCEPT ![g] = Append(@, t_len[t])]
        /\ IF SampleDue(elapsed)
             THEN /\ bytes_per_second' = [bytes_per_second EXCEPT ![g] =
                                            Smoothed(@, BufLen(buf), elapsed)]
                  /\ adapted' = [adapted EXCEPT ![g] = TRUE]
             ELSE UNCHANGED <<bytes_per_second, adapted>>
        /\ t_pc' = [t_pc EXCEPT ![t] = "appended"]
        /\ UNCHANGED <<now, audio_collector, AUDIO_DURATION_SECONDS,
                       duration_seconds, last_save_time, t_ref, t_len, emitted>>

\* add_chunk, lines 39-45: the segment is sliced off when due and handed to a
\* saving thread, the lock released
AddChunkSlice(t) ==
    LET g == t_ref[t]
        target_size == TargetSize(duration_seconds[g], bytes_per_second[g])
    IN  /\ t_pc[t] = "appended"
        /\ IF SegmentDue(BufLen(buffer[g]), target_size)
             THEN /\ emitted' = Append(emitted,
                        [collector |-> g,
                         audio |-> SliceTo(buffer[g], target_size),
                         target |-> target_size,
                         label |-> duration_seconds[g],
                         current |-> audio_collector,
                         configured |-> AUDIO_DURATION_SECONDS])
                  /\ buffer' = [buffer EXCEPT ![g] = SliceFrom(@, target_size)]
                  /\ last_save_time' = [last_save_time EXCEPT ![g] = now]
             ELSE UNCHANGED <<emitted, buffer, last_save_time>>
        /\ lock' = [lock EXCEPT ![g] = 0]
        /\ t_pc' = [t_pc EXCEPT ![t] = "idle"]
        /\ UNCHANGED <<now, audio_collector, AUDIO_DURATION_SECONDS,
                       duration_seconds, bytes_per_second, t_ref, t_len, added,
                       adapted>>

\* set_audio_duration(seconds): the globals are rebound to the new duration and
\* to a new AudioCollector(seconds)
SetAudioDuration(seconds) ==
    LET g == audio_collector + 1
    IN  /\ audio_collector < MaxReconfig
        /\ AUDIO_DURATION_SECONDS' = seconds
        /\ audio_collector' = g
        /\ duration_seconds' = [duration_seconds EXCEPT ![g] = seconds]
        /\ buffer' = [buffer EXCEPT ![g] = <<>>]
        /\ last_save_time' = [last_save_time EXCEPT ![g] = now]
        /\ bytes_per_second' = [bytes_per_second EXCEPT ![g] = <<InitialRate, 1>>]
        /\ lock' = [lock EXCEPT ![g] = 0]
        /\ UNCHANGED <<now, t_pc, t_ref, t_len, added, adapted, emitted>>

\* datetime.now().strftime("%Y%m%d_%H%M%S")
Timestamp(time) == time

\* f"audio_recordings/audio_{self.duration_seconds}sec_{timestamp}.webm"
Filename(g, timestamp) == <<duration_seconds[g], timestamp>>

\* _save_audio_file, run by the thread started for the i-th segment: the file
\* name is made from the collector's duration and the clock read when the
\* thread runs, and the file is opened with "wb"
SaveAudioFile(i) ==
    /\ i \in 1..Len(emitted)
    /\ \A f \in saved : f.seg # i
    /\ saved' = saved \cup {[seg |-> i,
                              name |-> Filename(emitted[i].collector, Timestamp(now))]}
    /\ UNCHANGED <<now, audio_collector, AUDIO_DURATION_SECONDS, duration_seconds,
                   buffer, last_save_time, bytes_per_second, lock, t_pc, t_ref,
                   t_len, added, adapted, emitted>>

\* the chunk sizes, durations and rate estimates the runs draw from
ChunkSizes == {300, 12000}
Durations == {1, 2}
StartRates == {InitialRate, 1000}

\* the module after import: audio_collector = AudioCollector(AUDIO_DURATION_SECONDS)
AggStart(rate) ==
    /\ now = 0
    /\ audio_collector = 0
    /\ AUDIO_DURATION_SECONDS = DefaultDuration
    /\ duration_seconds = [g \in Collectors |-> DefaultDuration]
    /\ buffer = [g \in Collectors |-> <<>>]
    /\ last_save_time = [g \in Collectors |-> 0]
    /\ bytes_per_second = [g \in Collectors |-> <<IF g = 0 THEN rate ELSE InitialRate, 1>>]
    /\ lock = [g \in Collectors |-> 0]
    /\ t_pc = [t \in Threads |-> "idle"]
    /\ t_ref = [t \in Threads |-> 0]
    /\ t_len = [t \in Threads |-> 0]
    /\ added = [g \in Collectors |-> <<>>]
    /\ adapted = [g \in Collectors |-> FALSE]
    /\ emitted = <<>>
    /\ saved = {}

RECURSIVE AddsUpTo(_)
AddsUpTo(g) == Len(added[g]) + (IF g = 0 THEN 0 ELSE AddsUpTo(g - 1))

\* the calls of process_audio_for_translation made so far
Calls == AddsUpTo(MaxReconfig) + Cardinality({t \in Threads : t_pc[t] = "loaded"})

\* ------------------------------------------------------- specification
Init == RelayInit /\ AggStart(InitialRate)

Next ==
    \/ Tick /\ UNCHANGED <<agg_vars, loop_vars>>
    \/ \E c \in Clients : EndpointConnect(c) /\ UNCHANGED <<agg_vars, loop_vars>>
    \/ \E c \in Clients : EndpointReceive(c) /\ UNCHANGED <<agg_vars, loop_vars>>
    \/ \E c \in Clients : EndpointDisconnect(c) /\ UNCHANGED <<agg_vars, loop_vars>>
    \/ \E c \in Clients : EndpointJoin(c) /\ UNCHANGED <<agg_vars, loop_vars>>
    \/ \E c \in Clients : SenderStart(c) /\ UNCHANGED <<agg_vars, loop_vars>>
    \/ \E c \in Clients : SenderGet(c) /\ UNCHANGED <<agg_vars, loop_vars>>
    \/ \E c \in Clients : SenderSendOk(c) /\ UNCHANGED <<agg_vars, loop_vars>>
    \/ \E c \in Clients : SenderSendFail(c) /\ UNCHANGED <<agg_vars, loop_vars>>
    \/ \E c \in Clients : SenderWake(c) /\ UNCHANGED <<agg_vars, loop_vars>>
    \/ \E c \in Clients : SenderIdleContinue(c) /\ UNCHANGED <<agg_vars, loop_vars>>
    \/ \E c \in Clients : SenderIdleExit(c) /\ UNCHANGED <<agg_vars, loop_vars>>
    \/ \E c \in Clients : SenderCancelled(c) /\ UNCHANGED <<agg_vars, loop_vars>>

Spec == Init /\ [][Next]_vars

\* the collector at a segment boundary, its estimate at the constructor's
\* value or settled at 1000 bytes per second
SettledInit == RelayInit /\ \E rate \in StartRates : AggStart(rate)

AggNext ==
    \/ AggTick /\ UNCHANGED <<relay_vars, saved>>
    \/ \E t \in Threads, n \in ChunkSizes :
          Calls < MaxAdds /\ ProcessAudio(t, n) /\ UNCHANGED <<relay_vars, saved>>
    \/ \E t \in Threads : AddChunkAppend(t) /\ UNCHANGED <<relay_vars, saved>>
    \/ \E t \in Threads : AddChunkSlice(t) /\ UNCHANGED <<relay_vars, saved>>
    \/ \E seconds \in Durations : SetAudioDuration(seconds) /\ UNCHANGED <<relay_vars, saved>>

\* the collector from import on
AggSpec == Init /\ [][AggNext]_vars

SettledSpec == SettledInit /\ [][AggNext]_vars

\* the collector's default chunk and one larger than a second of audio at
\* the initial estimate
SinkChunkSizes == {12000, 30000}

\* the collector with its saving threads
SinkNext ==
    \/ AggTick /\ UNCHANGED <<relay_vars, saved>>
    \/ \E t \in Threads, n \in SinkChunkSizes :
          Calls < MaxAdds /\ ProcessAudio(t, n) /\ UNCHANGED <<relay_vars, saved>>
    \/ \E t \in Threads : AddChunkAppend(t) /\ UNCHANGED <<relay_vars, saved>>
    \/ \E t \in Threads : AddChunkSlice(t) /\ UNCHANGED <<relay_vars, saved>>
    \/ \E seconds \in Durations :
          SetAudioDuration(seconds) /\ UNCHANGED <<relay_vars, saved>>
    \/ \E i \in 1..MaxAdds : SaveAudioFile(i) /\ UNCHANGED relay_vars

SinkSpec == Init /\ [][SinkNext]_vars

\* ------------------------------------------- the fan-out loop, step by step
EventLoopFreeAlways == TRUE

\* No coroutine is in the middle of a step.  The fan-out loop (lines 143-161)
\* holds no await, so once a receive path has entered it the event loop runs
\* no other coroutine until the loop has ended.
EventLoopFree == fanout_iter.src = 0

\* the set iterator finds len(connected_clients) changed since it was made
IterBroken == Cardinality(connected_clients) # fanout_iter.size

\* RuntimeError("Set changed size during iteration") leaves the loop: except
\* Exception, then the finally block of websocket_endpoint
IterRaise ==
    /\ iter_failed' = TRUE
    /\ fanout_iter' = NoIter
    /\ EndpointDisconnect(fanout_iter.src)

\* receive_bytes returns a chunk: the stamp, the counters, and the iterator of
\* the for loop is made (lines 127-143)
LoopReceive(c) ==
    /\ ep_pc[c] = "receive"
    /\ total_messages < MaxChunks
    /\ idle_for' = [idle_for EXCEPT ![c] = 0]
    /\ packet_counter' = [packet_counter EXCEPT ![c] = @ + 1]
    /\ total_messages' = total_messages + 1
    /\ unrecv_for' = [unrecv_for EXCEPT ![c] = 0]
    /\ fanout_iter' = [src |-> c, data |-> <<c, packet_counter[c] + 1>>,
                       todo |-> connected_clients,
                       size |-> Cardinality(connected_clients)]
    /\ UNCHANGED <<connected_clients, ep_pc, sender_pc, cancel_req, data_queue,
                   sender_data, ws_closed, exit_reason, unsent_for, regular,
                   last_fanout, iter_failed>>

\* one pass of the for loop, for other_client = o (lines 143-161)
LoopVisit(o) ==
    /\ o \in fanout_iter.todo
    /\ IF IterBroken
         THEN IterRaise
         ELSE /\ data_queue' = [data_queue EXCEPT ![o] =
                                  IF o # fanout_iter.src
                                    THEN Enqueue(@, fanout_iter.data) ELSE @]
              /\ fanout_iter' = [fanout_iter EXCEPT !.todo = @ \ {o}]
              /\ UNCHANGED <<connected_clients, ep_pc, sender_pc, cancel_req,
                             sender_data, idle_for, packet_counter, total_messages,
                             ws_closed, exit_reason, unsent_for, unrecv_for,
                             regular, last_fanout, iter_failed>>

\* the iterator is exhausted: back to receive_bytes
LoopEnd ==
    /\ fanout_iter.src # 0
    /\ fanout_iter.todo = {}
    /\ IF IterBroken
         THEN IterRaise
         ELSE /\ fanout_iter' = NoIter
              /\ UNCHANGED <<connected_clients, ep_pc, sender_pc, cancel_req,
                             data_queue, sender_data, idle_for, packet_counter,
                             total_messages, ws_closed, exit_reason, unsent_for,
                             unrecv_for, regular, last_fanout, iter_failed>>

LoopNext ==
    \/ EventLoopFree /\ Tick /\ UNCHANGED <<agg_vars, loop_vars>>
    \/ \E c \in Clients :
          EventLoopFree /\ EndpointConnect(c) /\ UNCHANGED <<agg_vars, loop_vars>>
    \/ \E c \in Clients : EventLoopFree /\ LoopReceive(c) /\ UNCHANGED agg_vars
    \/ \E o \in Clients : LoopVisit(o) /\ UNCHANGED agg_vars
    \/ LoopEnd /\ UNCHANGED agg_vars
    \/ \E c \in Clients :
          EventLoopFree /\ EndpointDisconnect(c) /\ UNCHANGED <<agg_vars, loop_vars>>
    \/ \E c \in Clients :
          EventLoopFree /\ EndpointJoin(c) /\ UNCHANGED <<agg_vars, loop_vars>>
    \/ \E c \in Clients :
          EventLoopFree /\ SenderStart(c) /\ UNCHANGED <<agg_vars, loop_vars>>
    \/ \E c \in Clients :
          EventLoopFree /\ SenderGet(c) /\ UNCHANGED <<agg_vars, loop_vars>>
    \/ \E c \in Clients :
          EventLoopFree /\ SenderSendOk(c) /\ UNCHANGED <<agg_vars, loop_vars>>
    \/ \E c \in Clients :
          EventLoopFree /\ SenderSendFail(c) /\ UNCHANGED <<agg_vars, loop_vars>>
    \/ \E c \in Clients :
          EventLoopFree /\ SenderWake(c) /\ UNCHANGED <<agg_vars, loop_vars>>
    \/ \E c \in Clients :
          EventLoopFree /\ SenderIdleContinue(c) /\ UNCHANGED <<agg_vars, loop_vars>>
    \/ \E c \in Clients :
          EventLoopFree /\ SenderIdleExit(c) /\ UNCHANGED <<agg_vars, loop_vars>>
    \/ \E c \in Clients :
          EventLoopFree /\ SenderCancelled(c) /\ UNCHANGED <<agg_vars, loop_vars>>

\* the relay with the fan-out loop taken one target at a time
LoopSpec == Init /\ [][LoopNext]_vars

\* ---------------------------------------------------------- properties
InQueue(q, d) == \E i \in 1..Len(q) : q[i] = d

\* the step is a pass of c's receive loop; NewChunk(c) is the chunk it fans out
FanoutStep(c) == packet_counter'[c] = packet_counter[c] + 1
NewChunk(c) == <<c, packet_counter'[c]>>

\* the step is the idle check of c's sender loop letting it continue / ending it
IdleContinueStep(c) == sender_pc[c] = "get" /\ sender_pc'[c] = "sleep_idle"
IdleExitStep(c) == exit_reason[c] = "none" /\ exit_reason'[c] = "timeout"

\* C1: a chunk received from connection A is never in A's own outbound queue
\* and is never the chunk A's sender task takes to send on A's transport.
C1_NoEcho ==
    \A c \in Clients :
        /\ \A i \in 1..Len(data_queue[c]) : data_queue[c][i][1] # c
        /\ sender_data[c][1] # c

\* a chunk of a has been sent on b's transport while a is registered with a
\* running sender and holds a chunk of b in its own queue
C1_Witness ==
    \E a, b \in Clients :
        /\ a # b
        /\ sender_pc[b] = "sleep_sent" /\ sender_data[b][1] = a
        /\ a \in connected_clients /\ sender_pc[a] = "get"
        /\ data_queue[a] # <<>> /\ data_queue[a][1][1] = b

\* C2: every outbound queue holds at most C = QueueMaxSize items in every
\* reachable state.
C2_QueueBound == \A c \in Clients : Len(data_queue[c]) <= QueueMaxSize

\* a queue refilled after a clear while its sender is sending a chunk
C2_Witness ==
    \E c \in Clients :
        /\ Len(data_queue[c]) = QueueMaxSize - 1
        /\ sender_pc[c] = "send"
        /\ c \in last_fanout.targets

\* C3: a fan-out of chunk d leaves every target queue that held C-1 or more
\* items holding exactly <<d>>, and appends d behind the unchanged items of
\* every target queue that held fewer.
C3_DropOldest ==
    [][\A c \in Clients : FanoutStep(c) =>
          \A t \in connected_clients \ {c} :
              data_queue'[t] = IF Len(data_queue[t]) >= QueueMaxSize - 1
                                 THEN <<NewChunk(c)>>
                                 ELSE Append(data_queue[t], NewChunk(c))]_vars

\* the last fan-out cleared a queue, which now holds only the new chunk
C3_Witness ==
    \E t \in last_fanout.cleared : data_queue[t] = <<last_fanout.data>>

C5_RegularNeverTimedOut ==
    \A c \in Clients : regular[c] => exit_reason[c] # "timeout"

\* a connection that delivered nothing for longer than the idle limit, kept
\* alive by regular sends, has just passed its idle check
C5_Witness ==
    \E c \in Clients :
        /\ regular[c] /\ unrecv_for[c] > IdleLimit
        /\ sender_pc[c] = "sleep_idle" /\ c \in connected_clients

\* C6: a fan-out changes the queue of no connection that is not in the
\* registry at that moment.
C6_NoDanglingDelivery ==
    [][\A c \in Clients : FanoutStep(c) =>
          \A t \in Clients :
              data_queue'[t] # data_queue[t] =>
                  t \in connected_clients /\ t \in connected_clients']_vars

\* the last fan-out passed over an accepted connection that had been
\* unregistered and whose receive path is still open
C6_Witness ==
    \E o \in last_fanout.skipped :
        /\ ep_pc[o] = "receive"
        /\ ~InQueue(data_queue[o], last_fanout.data)

\* C7: a transport is closed only after its sender task has finished (no
\* cancellation pending) and its registry entry is gone; no sender task is at
\* send_bytes on a closed transport.
C7_TeardownOrder ==
    \A c \in Clients :
        ws_closed[c] =>
            /\ sender_pc[c] = "done"
            /\ ~cancel_req[c]
            /\ c \notin connected_clients

\* a transport closed after its sender task, which had sent a chunk, was
\* cancelled and joined
C7_Witness ==
    \E c \in Clients :
        /\ ws_closed[c] /\ exit_reason[c] = "cancelled"
        /\ sender_data[c] # NoData

\* the segments collector g has emitted, in emission order
SegmentsOf(g) == SelectSeq(emitted, LAMBDA e : e.collector = g)

RECURSIVE Joined(_)
\* the bytes of a sequence of segments, in order
Joined(segs) == IF segs = <<>> THEN <<>> ELSE Concat(Head(segs).audio, Joined(Tail(segs)))

\* the first n bytes added to a collector, in arrival order
Stream(n) == IF n = 0 THEN <<>> ELSE <<<<0, n>>>>

\* the step is the second half of thread t's add_chunk
SliceStep(t) == t_pc[t] = "appended" /\ t_pc'[t] = "idle"

\* C8: for every collector, the emitted segments in emission order followed
\* by the buffer are the bytes of all added chunks in arrival order.
C8_ByteConservation ==
    \A g \in Collectors :
        Concat(Joined(SegmentsOf(g)), buffer[g]) = Stream(Added(g))

\* a collector whose rate estimate was adjusted has emitted two segments of
\* different sizes and keeps a remainder
C8_Witness ==
    \E g \in Collectors :
        /\ adapted[g] /\ buffer[g] # <<>>
        /\ Len(SegmentsOf(g)) = 2
        /\ SegmentsOf(g)[1].target # SegmentsOf(g)[2].target

\* the fixed-rate run: four chunks of 300 bytes at 1000 bytes per second
FourChunks == <<300, 300, 300, 300>>
FixedRateRun(g) ==
    /\ added[g] = FourChunks /\ lock[g] = 0
    /\ ~adapted[g] /\ bytes_per_second[g] = <<1000, 1>> /\ duration_seconds[g] = 1

\* C9: add_chunk emits a segment exactly when the buffer after the append
\* holds at least the target size; the segment is then the first target-size
\* bytes of the buffer and the rest stays buffered.  Four chunks of 300 bytes
\* at a fixed 1000 bytes per second and 1 s give one segment of 1000 bytes and
\* a remainder of 200.
C9_SliceExact ==
    /\ [][\A t \in Threads : SliceStep(t) =>
            LET g == t_ref[t]
                size == TargetSize(duration_seconds[g], bytes_per_second[g])
            IN  IF BufLen(buffer[g]) >= size
                  THEN /\ Len(emitted') = Len(emitted) + 1
                       /\ emitted'[Len(emitted')].collector = g
                       /\ BufLen(emitted'[Len(emitted')].audio) = size
                       /\ Concat(emitted'[Len(emitted')].audio, buffer'[g]) = buffer[g]
                  ELSE emitted' = emitted /\ buffer'[g] = buffer[g]]_vars
    /\ [](\A g \in Collectors : FixedRateRun(g) =>
            /\ Len(SegmentsOf(g)) = 1
            /\ SegmentsOf(g)[1].audio = <<<<0, 1000>>>>
            /\ buffer[g] = <<<<1000, 1200>>>>)

\* the fixed-rate run has been made and a segment emitted
C9_Witness ==
    \E g \in Collectors : FixedRateRun(g) /\ SegmentsOf(g) # <<>>

\* C10 as claimed: every segment is emitted by the collector that is current
\* when it is emitted and carries the duration configured at that moment.
C10_NewDurationOnly ==
    \A i \in 1..Len(emitted) :
        /\ emitted[i].label = emitted[i].configured
        /\ emitted[i].collector = emitted[i].current

\* the step ends c's sender loop on a send error
SendFailStep(c) == exit_reason[c] = "none" /\ exit_reason'[c] = "error"

\* the step belongs to c's teardown after its receive raised: the except and
\* finally blocks of websocket_endpoint, or the cancellation of its sender task
ReceiveFailStep(c) ==
    \/ ep_pc[c] = "receive" /\ ep_pc'[c] \in {"await_sender", "closed"}
    \/ ep_pc[c] = "await_sender" /\ ep_pc'[c] = "closed"
    \/ exit_reason[c] = "none" /\ exit_reason'[c] \in {"cancelled", "unstarted"}

\* what the claims call the loops and the queue of a connection
ConnState(c) == <<ep_pc[c], sender_pc[c], cancel_req[c], data_queue[c],
                  sender_data[c], ws_closed[c], c \in connected_clients>>

\* C11: a step handling a failed send to c or a failed receive from c changes
\* neither the registry membership, the queue, the sender loop nor the receive
\* loop of any other connection; a failed send unregisters c at once, a failed
\* receive has unregistered c when its transport is closed.
C11_FailureScoped ==
    [][\A c \in Clients :
          /\ (SendFailStep(c) \/ ReceiveFailStep(c)) =>
                /\ \A o \in Clients \ {c} : ConnState(o)' = ConnState(o)
                /\ connected_clients' = connected_clients \ {c}
                   \/ connected_clients' = connected_clients
          /\ SendFailStep(c) => c \notin connected_clients'
          /\ (ReceiveFailStep(c) /\ ep_pc'[c] = "closed") =>
                c \notin connected_clients']_vars

\* a send to c failed and c's receive ended, c is closed; the other
\* connection is still registered, holds a queued chunk, and both its loops run
C11_Witness ==
    \E c, o \in Clients :
        /\ c # o
        /\ exit_reason[c] = "error" /\ ep_pc[c] = "closed"
        /\ o \in connected_clients /\ data_queue[o] # <<>>
        /\ sender_pc[o] = "get" /\ ep_pc[o] = "receive"

\* C12 as claimed: every chunk the relay has received has been handed to
\* process_audio_for_translation / add_chunk.
C12_EveryChunkAggregated == total_messages <= Calls

\* the sender task of c exists and is not finished
SenderRunning(c) ==
    sender_pc[c] \in {"created", "get", "send", "sleep_sent", "sleep_idle"}

\* C14 as claimed: every connection in the registry has a sender task that
\* has been created and is not finished.
C14_RegisteredHasSender ==
    \A c \in connected_clients : SenderRunning(c)

\* the teardown of c has begun: its receive path has ended and the
\* cancellation of its sender task has been requested
MidTeardown(c) == ep_pc[c] = "await_sender"

\* C15 as claimed: a fan-out changes the queue of no connection whose
\* teardown has begun.
C15_NoFanoutMidTeardown ==
    [][\A o \in Clients : FanoutStep(o) =>
          \A c \in Clients :
              MidTeardown(c) => data_queue'[c] = data_queue[c]]_vars

\* the steps the server takes by itself for connection c: the steps of its
\* sender task and the resumption of its endpoint from `await sender_task`.
\* What the remote peer decides (a chunk, a disconnect, a new connection) is
\* not among them.
ServerStep(c) ==
    /\ \/ EndpointJoin(c)
       \/ SenderStart(c)
       \/ SenderGet(c)
       \/ SenderSendOk(c) \/ SenderSendFail(c)
       \/ SenderWake(c)
       \/ SenderIdleContinue(c)
       \/ SenderIdleExit(c)
       \/ SenderCancelled(c)
    /\ UNCHANGED <<agg_vars, loop_vars>>

\* the event loop runs every task that is ready, and time passes
LiveSpec ==
    /\ Spec
    /\ \A c \in Clients : WF_vars(ServerStep(c))
    /\ WF_vars(Tick /\ UNCHANGED <<agg_vars, loop_vars>>)

\* C16 as claimed: a connection whose sender loop found the idle limit
\* exceeded eventually is closed (receive path stopped, transport released),
\* whatever the remote peer does.
C16_TimeoutCloses ==
    \A c \in Clients : (exit_reason[c] = "timeout") ~> (ep_pc[c] = "closed")

\* C20: every outbound queue holds at most C-1 items in every reachable state;
\* every put_nowait of a fan-out adds the chunk, to the emptied queue or behind
\* the items it held (the QueueFull branch is not taken); after a fan-out step
\* the chunk is the newest item of the queue of every other registered
\* connection.
C20_InsertNeverFails ==
    /\ [](\A c \in Clients : Len(data_queue[c]) <= QueueMaxSize - 1)
    /\ [][\A c \in Clients : FanoutStep(c) =>
            \A t \in connected_clients \ {c} :
                /\ Len(data_queue'[t]) \in 1..(QueueMaxSize - 1)
                /\ Len(data_queue'[t]) = 1 \/ Len(data_queue'[t]) = Len(data_queue[t]) + 1
                /\ data_queue'[t][Len(data_queue'[t])] = NewChunk(c)]_vars

\* the last fan-out appended, without clearing, to a queue that now holds C-1
\* items, the chunk being the newest, and the target's sender is polling
C20_Witness ==
    \E t \in last_fanout.targets \ last_fanout.cleared :
        /\ Len(data_queue[t]) = QueueMaxSize - 1
        /\ data_queue[t][Len(data_queue[t])] = last_fanout.data
        /\ sender_pc[t] = "get"

\* the threads between the append and the buffer replacement of add_chunk on
\* collector g
Inside(g) == {t \in Threads : t_pc[t] = "appended" /\ t_ref[t] = g}

\* C17: at most one thread is between the append and the buffer replacement
\* of add_chunk on a collector, and it holds the collector's lock; while it is
\* there no step changes the collector's buffer, rate estimate or segments,
\* so every add_chunk acts as one step; the bytes of the emitted segments and
\* of the buffer are as many as were added.
C17_CriticalSection ==
    /\ [](\A g \in Collectors :
            /\ Cardinality(Inside(g)) <= 1
            /\ \A t \in Inside(g) : lock[g] = t
            /\ BufLen(Joined(SegmentsOf(g))) + BufLen(buffer[g]) = Added(g))
    /\ [][\A g \in Collectors : \A t \in Inside(g) :
            t_pc'[t] = "appended" =>
                /\ buffer'[g] = buffer[g]
                /\ bytes_per_second'[g] = bytes_per_second[g]
                /\ last_save_time'[g] = last_save_time[g]
                /\ added'[g] = added[g]
                /\ SegmentsOf(g)' = SegmentsOf(g)]_vars

\* a thread is inside add_chunk of a collector that has emitted a segment,
\* while another thread has called add_chunk on the same collector and waits
\* for the lock
C17_Witness ==
    \E g \in Collectors, t, u \in Threads :
        /\ t \in Inside(g)
        /\ t_pc[u] = "loaded" /\ t_ref[u] = g
        /\ SegmentsOf(g) # <<>>

\* C18 as claimed: no two segments are saved under the same file name.
C18_UniqueNames ==
    \A a, b \in saved : a.seg # b.seg => a.name # b.name

\* C19 as claimed: the target size add_chunk computes for a chunk is not
\* negative and not smaller than the chunk.
C19_TargetAtLeastChunk ==
    \A t \in Threads :
        t_pc[t] = "appended" =>
            LET target_size == TargetSize(duration_seconds[t_ref[t]],
                                          bytes_per_second[t_ref[t]])
            IN  target_size >= 0 /\ target_size >= t_len[t]

\* C13: while a receive path iterates the registry no step changes the
\* registry or runs another coroutine, no iteration fails because the set
\* changed size, and when the iteration ends every other connection of the
\* registry holds the chunk as the newest item of its queue.
C13_SnapshotFanout ==
    /\ [](~iter_failed)
    /\ [][fanout_iter.src # 0 =>
            /\ connected_clients' = connected_clients
            /\ ep_pc' = ep_pc /\ sender_pc' = sender_pc
            /\ fanout_iter' # fanout_iter
            /\ fanout_iter'.src = 0 =>
                  \A o \in connected_clients \ {fanout_iter.src} :
                      /\ data_queue'[o] # <<>>
                      /\ data_queue'[o][Len(data_queue'[o])] = fanout_iter.data]_vars

\* an iteration is under way and has passed its own connection, while the
\* sender loop of a target it has not visited yet is due to time out and
\* unregister
C13_Witness ==
    \E o \in fanout_iter.todo :
        /\ fanout_iter.src \in connected_clients \ fanout_iter.todo
        /\ o # fanout_iter.src
        /\ sender_pc[o] = "get" /\ data_queue[o] = <<>> /\ IdleExpired(o)
====
